---- MODULE Spec2Model ----
\* A model of package agenda (agenda.go): Run and processFile over a test
\* directory, a test callback and an option list.
\*
\* File names are sequences of characters, file contents sequences of bytes.
\* The characters "j" and "r" stand for the two default suffixes: <<"j">> is
\* ".json" and <<"r">> is ".result".
EXTENDS Integers, Sequences, FiniteSets, TLC

\* ---------------------------------------------------------------- bounds

\* longest file name the filesystem accepts (NAME_MAX, scaled down)
NameMax == 3
\* longest file content and callback output
MaxLen == 1
\* largest byte value
MaxByte == 1
\* directory entries present before the first Run
MaxFiles == 2
\* calls of Run in one behaviour
MaxRuns == 2
\* longest name of an entry present before the first Run
MaxInitName == 2
\* longest option list a caller passes to Run
MaxOptions == 3
\* longest message of an error passed to SerializableError
MaxMsg == 5

\* ---------------------------------------------------------------- values

Chars == {"j", "r"}

CharCode(c) == IF c = "j" THEN 106 ELSE 114

Byte == 0..MaxByte

SeqsUpTo(S, n) == UNION {[1..k -> S] : k \in 0..n}

Names == SeqsUpTo(Chars, NameMax) \ {<<>>}

Contents == SeqsUpTo(Byte, MaxLen)

\* a []byte value: Go tells a nil slice from an empty one
Nil == [nil |-> TRUE, b |-> <<>>]

Slice(s) == [nil |-> FALSE, b |-> s]

\* bytes.Equal: a nil argument is equivalent to an empty slice
BytesEqual_NilDiffers(a, b) == a = b

BytesEqual_LengthOnly(a, b) == Len(a.b) = Len(b.b)

BytesEqual(a, b) == a.b = b.b

\* strings.HasSuffix
HasSuffix_Contains(s, suffix) ==
    \E i \in 0..Len(s) : /\ i + Len(suffix) <= Len(s)
                         /\ SubSeq(s, i + 1, i + Len(suffix)) = suffix

HasSuffix(s, suffix) ==
    /\ Len(suffix) <= Len(s)
    /\ SubSeq(s, Len(s) - Len(suffix) + 1, Len(s)) = suffix

\* ------------------------------------------------------------ filesystem

\* A directory entry: no entry, a regular file, a subdirectory, or a file
\* without permissions (os.Stat succeeds, reading and writing fail).
NoEntry == [kind |-> "none", data |-> <<>>]

File(d) == [kind |-> "file", data |-> d]

SubDir == [kind |-> "dir", data |-> <<>>]

Locked == [kind |-> "locked", data |-> <<>>]

Entries == {File(d) : d \in Contents} \cup {SubDir, Locked}

EmptyDir == [n \in Names |-> NoEntry]

\* os.Stat(path): "ok", "notexist" (os.IsNotExist) or "error" (ENAMETOOLONG)
Stat(fsys, path) ==
    IF path \notin Names THEN "error"
    ELSE IF fsys[path].kind = "none" THEN "notexist"
    ELSE "ok"

\* ioutil.ReadFile(path)
ReadFile_LockedReadsEmpty(fsys, path) ==
    IF path \in Names /\ fsys[path].kind \in {"file", "locked"}
    THEN [ok |-> TRUE, data |-> fsys[path].data]
    ELSE [ok |-> FALSE, data |-> <<>>]

ReadFile(fsys, path) ==
    IF path \in Names /\ fsys[path].kind = "file"
    THEN [ok |-> TRUE, data |-> fsys[path].data]
    ELSE [ok |-> FALSE, data |-> <<>>]

\* ioutil.WriteFile(path, data, 0644): creates or truncates the file
WriteFile_KeepExisting(fsys, path, data) ==
    IF path \in Names /\ fsys[path].kind = "none"
    THEN [ok |-> TRUE, fs |-> [fsys EXCEPT ![path] = File(data.b)]]
    ELSE IF path \in Names /\ fsys[path].kind = "file"
    THEN [ok |-> TRUE, fs |-> fsys]
    ELSE [ok |-> FALSE, fs |-> fsys]

WriteFile_Append(fsys, path, data) ==
    IF path \in Names /\ fsys[path].kind \in {"none", "file"}
    THEN [ok |-> TRUE,
          fs |-> [fsys EXCEPT ![path] = File(fsys[path].data \o data.b)]]
    ELSE [ok |-> FALSE, fs |-> fsys]

WriteFile(fsys, path, data) ==
    IF path \in Names /\ fsys[path].kind \in {"none", "file"}
    THEN [ok |-> TRUE, fs |-> [fsys EXCEPT ![path] = File(data.b)]]
    ELSE [ok |-> FALSE, fs |-> fsys]

\* lexicographic order of file names (ioutil.ReadDir sorts by name)
RECURSIVE NameLess(_, _)
NameLess(a, b) ==
    IF a = <<>> THEN b # <<>>
    ELSE IF b = <<>> THEN FALSE
    ELSE IF Head(a) # Head(b) THEN CharCode(Head(a)) < CharCode(Head(b))
    ELSE NameLess(Tail(a), Tail(b))

RECURSIVE SortNames(_)
SortNames(S) ==
    IF S = {} THEN <<>>
    ELSE LET m == CHOOSE x \in S : \A y \in S \ {x} : NameLess(x, y)
         IN <<m>> \o SortNames(S \ {m})

\* ioutil.ReadDir(dir): the names of the entries, sorted
ReadDir_Descending(fsys) ==
    LET l == SortNames({n \in Names : fsys[n].kind # "none"})
    IN  [i \in 1..Len(l) |-> l[Len(l) + 1 - i]]

ReadDir(fsys) == SortNames({n \in Names : fsys[n].kind # "none"})

\* -------------------------------------------------------------- callbacks

\* Test func(path string, data []byte) ([]byte, error): the deterministic
\* callbacks a caller passes to Run. NilTest is the nil function value.
NilTest == "nil"

Tests == {"echo", "parse", "none"}

Invert(d) == [i \in 1..Len(d) |-> MaxByte - d[i]]

\* "echo" returns its input; "parse" fails on empty input with a nil result
\* (return nil, err) and otherwise returns the inverted input; "none" returns
\* (nil, nil).
CallTest(t, path, data) ==
    CASE t = "echo"     -> [out |-> Slice(data), err |-> FALSE]
      [] t = "parse"    -> IF data = <<>>
                           THEN [out |-> Nil, err |-> TRUE]
                           ELSE [out |-> Slice(Invert(data)), err |-> FALSE]
      [] t = "none"     -> [out |-> Nil, err |-> FALSE]

\* ------------------------------------------------------------ serializers

\* StringSerializerFunc values: the two built in, the nil function value, and
\* a caller's serializer that rejects data holding a non-zero byte.
Serializers == {"utf8", "binary", "nil", "strict"}

\* serializeUTF8Bytes: string(data)
serializeUTF8Bytes(data) == [ok |-> TRUE, str |-> data.b]

RECURSIVE HexDigits(_)
HexDigits(d) ==
    IF d = <<>> THEN <<>>
    ELSE <<Head(d) \div 16, Head(d) % 16>> \o HexDigits(Tail(d))

\* serializeBinaryData: hex.Dump(data), here the hex digits of each byte
serializeBinaryData(data) == [ok |-> TRUE, str |-> HexDigits(data.b)]

serializeStrict(data) ==
    IF \E i \in 1..Len(data.b) : data.b[i] # 0
    THEN [ok |-> FALSE, str |-> <<>>]
    ELSE [ok |-> TRUE, str |-> data.b]

\* opt.serializeFunc(data), for a non-nil serializeFunc
Serialize(f, data) ==
    CASE f = "utf8"   -> serializeUTF8Bytes(data)
      [] f = "binary" -> serializeBinaryData(data)
      [] f = "strict" -> serializeStrict(data)

\* ---------------------------------------------------------------- options

\* option values: func(options *optionSet)
FileSuffix(suffix) ==
    [name |-> "FileSuffix", suffix |-> suffix, enabled |-> FALSE, f |-> ""]

ResultSuffix(suffix) ==
    [name |-> "ResultSuffix", suffix |-> suffix, enabled |-> FALSE, f |-> ""]

InitMode(enabled) ==
    [name |-> "InitMode", suffix |-> <<>>, enabled |-> enabled, f |-> ""]

Serializer(f) ==
    [name |-> "Serializer", suffix |-> <<>>, enabled |-> FALSE, f |-> f]

BinarySerializer == Serializer("binary")

UTF8Serializer == Serializer("utf8")

\* f(opt) for one option f
ApplyOption_InitModeOnlyEnables(o, op) ==
    CASE op.name = "FileSuffix"   -> [o EXCEPT !.fileSuffix = op.suffix]
      [] op.name = "ResultSuffix" -> [o EXCEPT !.resultSuffix = op.suffix]
      [] op.name = "InitMode"     -> [o EXCEPT !.initMode = @ \/ op.enabled]
      [] op.name = "Serializer"   -> [o EXCEPT !.serializeFunc = op.f]

ApplyOption_ResultSetsFile(o, op) ==
    CASE op.name = "FileSuffix"   -> [o EXCEPT !.fileSuffix = op.suffix]
      [] op.name = "ResultSuffix" -> [o EXCEPT !.fileSuffix = op.suffix]
      [] op.name = "InitMode"     -> [o EXCEPT !.initMode = op.enabled]
      [] op.name = "Serializer"   -> [o EXCEPT !.serializeFunc = op.f]

ApplyOption(o, op) ==
    CASE op.name = "FileSuffix"   -> [o EXCEPT !.fileSuffix = op.suffix]
      [] op.name = "ResultSuffix" -> [o EXCEPT !.resultSuffix = op.suffix]
      [] op.name = "InitMode"     -> [o EXCEPT !.initMode = op.enabled]
      [] op.name = "Serializer"   -> [o EXCEPT !.serializeFunc = op.f]

\* the optionSet Run starts from; arg0 is flag.Arg(0)
DefaultOptions(arg0) ==
    [fileSuffix    |-> <<"j">>,
     resultSuffix  |-> <<"r">>,
     initMode      |-> (arg0 = "init"),
     serializeFunc |-> "utf8"]

RECURSIVE ApplyOptions_FirstWins(_, _)
ApplyOptions_FirstWins(o, ops) ==
    IF ops = <<>> THEN o
    ELSE ApplyOption(ApplyOptions_FirstWins(o, Tail(ops)), Head(ops))

RECURSIVE ApplyOptions(_, _)
ApplyOptions(o, ops) ==
    IF ops = <<>> THEN o
    ELSE ApplyOptions(ApplyOption(o, Head(ops)), Tail(ops))

\* for _, f := range options { f(opt) }
ResolveOptions(arg0, ops) == ApplyOptions(DefaultOptions(arg0), ops)

\* ------------------------------------------------------------ processFile

\* One entry of the run's record: a call Run or processFile makes. name is the
\* fixture being processed (<<>> for a call Run makes itself), path the file
\* the call is about, out the bytes read, returned or written, err whether
\* the call failed.
Ev(ev, name, path, out, err, why) ==
    [ev |-> ev, name |-> name, path |-> path, out |-> out, err |-> err,
     why |-> why]

Errorf(name, why) == Ev("Errorf", name, name, Nil, FALSE, why)

Fatalf(name, why) == Ev("Fatalf", name, name, Nil, FALSE, why)

\* processFile, agenda.go:296-334: the report of a mismatch. diffErr is
\* whether difflib.GetUnifiedDiffString returns an error.
ReportMismatch_SilentWithoutSerializer(name, resultPath, o, referenceOutput, output, diffErr) ==
    IF o.serializeFunc = "nil" THEN <<>>
    ELSE <<Errorf(name, "Here's the diff")>>

ReportMismatch_SilentOnSerializeError(name, resultPath, o, referenceOutput, output, diffErr) ==
    IF o.serializeFunc = "nil"
    THEN <<Errorf(name, "no data serialization function provided")>>
    ELSE IF /\ Serialize(o.serializeFunc, referenceOutput).ok
            /\ Serialize(o.serializeFunc, output).ok
    THEN <<Errorf(name, "Here's the diff")>>
    ELSE <<>>

ReportMismatch_FatalOnSerializeError(name, resultPath, o, referenceOutput, output, diffErr) ==
    IF o.serializeFunc = "nil"
    THEN <<Errorf(name, "no data serialization function provided")>>
    ELSE IF ~Serialize(o.serializeFunc, referenceOutput).ok
    THEN <<Fatalf(name, "serializing reference output data failed")>>
    ELSE IF ~Serialize(o.serializeFunc, output).ok
    THEN <<Fatalf(name, "serializing generated output data failed")>>
    ELSE <<Errorf(name, "Here's the diff")>>

ReportMismatch(name, resultPath, o, referenceOutput, output, diffErr) ==
    IF o.serializeFunc = "nil"
    THEN <<Errorf(name, "no data serialization function provided")>>
    ELSE
    LET ref == Serialize(o.serializeFunc, referenceOutput)
        out == Serialize(o.serializeFunc, output)
        refEv == Ev("serializeFunc", name, resultPath, referenceOutput,
                    ~ref.ok, "reference")
        outEv == Ev("serializeFunc", name, resultPath, output,
                    ~out.ok, "generated")
    IN  IF ~ref.ok
        THEN <<refEv,
               Errorf(name, "serializing reference output data failed")>>
        ELSE IF ~out.ok
        THEN <<refEv, outEv,
               Errorf(name, "serializing generated output data failed")>>
        ELSE IF diffErr
        THEN <<refEv, outEv, Errorf(name, "generating the diff failed")>>
        ELSE <<refEv, outEv, Errorf(name, "Here's the diff")>>

\* processFile, agenda.go:270-281: in regular mode, the reference is looked
\* up and read before the callback runs.
LoadReference_MissingIsEmpty(fsys, name, resultPath) ==
    LET st == Stat(fsys, resultPath)
        statEv == Ev("Stat", name, resultPath, Nil, st # "ok", st)
    IN  [fatal |-> FALSE, data |-> Slice(ReadFile(fsys, resultPath).data),
         log |-> <<statEv>>]

LoadReference(fsys, name, resultPath) ==
    LET st == Stat(fsys, resultPath)
        statEv == Ev("Stat", name, resultPath, Nil, st # "ok", st)
        ref == ReadFile(fsys, resultPath)
        refEv == Ev("ReadFile", name, resultPath, Slice(ref.data), ~ref.ok,
                    "reference")
    IN  IF st = "notexist"
        THEN [fatal |-> TRUE, data |-> Nil,
              log |-> <<statEv, Fatalf(name, "doesn't exist")>>]
        ELSE IF ~ref.ok
        THEN [fatal |-> TRUE, data |-> Nil,
              log |-> <<statEv, refEv,
                        Fatalf(name, "Can't read the reference file")>>]
        ELSE [fatal |-> FALSE, data |-> Slice(ref.data),
              log |-> <<statEv, refEv>>]

\* processFile, agenda.go:285-288: the callback, and the report of its error
CallAndReport_Silent(t, name, input) ==
    <<Ev("test", name, name, CallTest(t, name, input).out,
         CallTest(t, name, input).err, "")>>

CallAndReport(t, name, input) ==
    LET res == CallTest(t, name, input)
    IN  <<Ev("test", name, name, res.out, res.err, "")>>
        \o (IF res.err THEN <<Errorf(name, "Error during test() call")>>
            ELSE <<>>)

\* processFile(t, path, test, opt): the filesystem it leaves, the calls it
\* made, and whether it ended in t.Fatalf.
processFile_WritesInAnyMode(fsys, name, t, o, diffErr) ==
    LET resultPath == name \o o.resultSuffix
        input == ReadFile(fsys, name)
        readEv == Ev("ReadFile", name, name, Slice(input.data), ~input.ok, "")
        output == CallTest(t, name, input.data).out
        w == WriteFile(fsys, resultPath, output)
    IN  IF ~input.ok
        THEN [fs |-> fsys, fatal |-> TRUE,
              log |-> <<readEv, Fatalf(name, "Can't read the file")>>]
        ELSE [fs |-> w.fs, fatal |-> ~w.ok,
              log |-> <<readEv>> \o CallAndReport(t, name, input.data)
                      \o <<Ev("WriteFile", name, resultPath, output, ~w.ok, "")>>
                      \o (IF w.ok THEN <<>>
                          ELSE <<Fatalf(name, "Can't save file")>>)]

processFile_CallbackFirst(fsys, name, t, o, diffErr) ==
    LET resultPath == name \o o.resultSuffix
        input == ReadFile(fsys, name)
        readEv == Ev("ReadFile", name, name, Slice(input.data), ~input.ok, "")
        ref == IF o.initMode THEN [fatal |-> FALSE, data |-> Nil, log |-> <<>>]
               ELSE LoadReference(fsys, name, resultPath)
        output == CallTest(t, name, input.data).out
        called == <<readEv>> \o CallAndReport(t, name, input.data) \o ref.log
        equal == BytesEqual(output, ref.data)
        w == WriteFile(fsys, resultPath, output)
    IN  IF ~input.ok
        THEN [fs |-> fsys, fatal |-> TRUE,
              log |-> <<readEv, Fatalf(name, "Can't read the file")>>]
        ELSE IF ref.fatal
        THEN [fs |-> fsys, fatal |-> TRUE, log |-> called]
        ELSE IF ~o.initMode
        THEN [fs |-> fsys, fatal |-> FALSE,
              log |-> called
                      \o <<Ev("bytes.Equal", name, resultPath, ref.data,
                              ~equal, "")>>
                      \o (IF equal THEN <<>>
                          ELSE ReportMismatch(name, resultPath, o, ref.data,
                                              output, diffErr))]
        ELSE [fs |-> w.fs, fatal |-> ~w.ok,
              log |-> called
                      \o <<Ev("WriteFile", name, resultPath, output, ~w.ok, "")>>
                      \o (IF w.ok THEN <<>>
                          ELSE <<Fatalf(name, "Can't save file")>>)]

processFile_ReturnsOnCallbackError(fsys, name, t, o, diffErr) ==
    LET resultPath == name \o o.resultSuffix
        input == ReadFile(fsys, name)
        readEv == Ev("ReadFile", name, name, Slice(input.data), ~input.ok, "")
        ref == IF o.initMode THEN [fatal |-> FALSE, data |-> Nil, log |-> <<>>]
               ELSE LoadReference(fsys, name, resultPath)
        res == CallTest(t, name, input.data)
        called == <<readEv>> \o ref.log \o CallAndReport(t, name, input.data)
        equal == BytesEqual(res.out, ref.data)
        w == WriteFile(fsys, resultPath, res.out)
    IN  IF ~input.ok
        THEN [fs |-> fsys, fatal |-> TRUE,
              log |-> <<readEv, Fatalf(name, "Can't read the file")>>]
        ELSE IF ref.fatal
        THEN [fs |-> fsys, fatal |-> TRUE, log |-> <<readEv>> \o ref.log]
        ELSE IF res.err
        THEN [fs |-> fsys, fatal |-> FALSE, log |-> called]
        ELSE IF ~o.initMode
        THEN [fs |-> fsys, fatal |-> FALSE,
              log |-> called
                      \o <<Ev("bytes.Equal", name, resultPath, ref.data,
                              ~equal, "")>>
                      \o (IF equal THEN <<>>
                          ELSE ReportMismatch(name, resultPath, o, ref.data,
                                              res.out, diffErr))]
        ELSE [fs |-> w.fs, fatal |-> ~w.ok,
              log |-> called
                      \o <<Ev("WriteFile", name, resultPath, res.out, ~w.ok, "")>>
                      \o (IF w.ok THEN <<>>
                          ELSE <<Fatalf(name, "Can't save file")>>)]

\* processFile, agenda.go:258: resultPath := path + opt.resultSuffix
ResultPath_SuffixFirst(name, o) == o.resultSuffix \o name

ResultPath(name, o) == name \o o.resultSuffix

processFile(fsys, name, t, o, diffErr) ==
    LET resultPath == ResultPath(name, o)
        input == ReadFile(fsys, name)
        readEv == Ev("ReadFile", name, name, Slice(input.data), ~input.ok, "")
        ref == IF o.initMode THEN [fatal |-> FALSE, data |-> Nil, log |-> <<>>]
               ELSE LoadReference(fsys, name, resultPath)
        output == CallTest(t, name, input.data).out
        called == <<readEv>> \o ref.log \o CallAndReport(t, name, input.data)
        equal == BytesEqual(output, ref.data)
        w == WriteFile(fsys, resultPath, output)
    IN  IF ~input.ok
        THEN [fs |-> fsys, fatal |-> TRUE,
              log |-> <<readEv, Fatalf(name, "Can't read the file")>>]
        ELSE IF ref.fatal
        THEN [fs |-> fsys, fatal |-> TRUE, log |-> <<readEv>> \o ref.log]
        ELSE IF ~o.initMode
        THEN [fs |-> fsys, fatal |-> FALSE,
              log |-> called
                      \o <<Ev("bytes.Equal", name, resultPath, ref.data,
                              ~equal, "")>>
                      \o (IF equal THEN <<>>
                          ELSE ReportMismatch(name, resultPath, o, ref.data,
                                              output, diffErr))]
        ELSE [fs |-> w.fs, fatal |-> ~w.ok,
              log |-> called
                      \o <<Ev("WriteFile", name, resultPath, output, ~w.ok, "")>>
                      \o (IF w.ok THEN <<>>
                          ELSE <<Fatalf(name, "Can't save file")>>)]

\* ------------------------------------------------------- agenda_util.go

\* Go values: an error is nil or carries a message (possibly the empty
\* string); an interface{} is nil, a string or an error.
Messages == SeqsUpTo(Chars, MaxMsg)

NilError == [kind |-> "nil", msg |-> <<>>]

NewError(msg) == [kind |-> "error", msg |-> msg]

Errors == {NilError} \cup {NewError(m) : m \in Messages}

NilValue == [kind |-> "nil", msg |-> <<>>]

StringValue(str) == [kind |-> "string", msg |-> str]

NotCalled == [kind |-> "none", msg |-> <<>>]

\* SerializableError(err error) interface{}
SerializableError_ReturnsError(e) == e

SerializableError(e) ==
    IF e # NilError THEN StringValue(e.msg) ELSE NilValue

\* ------------------------------------------------------------------ state

VARIABLES
    dir,      \* the test directory: "dir", "missing", "blocked" (missing and
              \* not creatable) or "notdir" (the path is a regular file)
    fs,       \* the entries of the test directory, by name
    test,     \* the callback the test program passes to Run
    options,  \* the options the test program passes to Run
    opt,      \* Run's resolved optionSet
    pc,       \* "idle", "loop" (Run is in its loop over the listing), "done"
              \* (Run returned), "fatal" (t.Fatalf ended it), "panic"
    files,    \* the part of the ReadDir listing the loop has not visited
    found,    \* Run's found flag
    log,      \* the calls the current Run has made, in order
    runs,     \* calls of Run so far
    dir0,     \* dir when the current Run began
    fs0,      \* fs when the current Run began
    prev,     \* the previous Run: its opt, pc, log, fs0, fs, and what was
              \* changed in the directory after it
    changed,  \* what was changed in the directory since the last Run ended
    errArg,   \* the error a caller passes to SerializableError
    errResult \* what SerializableError returned for it, NotCalled before

vars == <<dir, fs, test, options, opt, pc, files, found, log, runs, dir0, fs0,
          prev, changed, errArg, errResult>>

NoChange == [kind |-> "none", path |-> <<>>]

NoRun ==
    [ran |-> FALSE, opt |-> DefaultOptions(""), pc |-> "idle", log |-> <<>>,
     fs0 |-> EmptyDir, fs |-> EmptyDir, changed |-> NoChange]

\* The option lists of the test programs: no option, or one option as in
\* Test01RunWithCustomFileSuffix and Test01RunWithBinarySerializer. Beside the
\* default <<"j">>, the file suffix is empty or <<"r">>; beside the default
\* <<"r">>, the result suffix is empty, <<"j", "r">> or <<"r", "j">>.
FileSuffixes == {<<>>, <<"r">>}

ResultSuffixes == {<<>>, <<"j", "r">>, <<"r", "j">>}

OptionLists ==
    {<<>>}
    \cup {<<FileSuffix(a)>> : a \in FileSuffixes}
    \cup {<<ResultSuffix(b)>> : b \in ResultSuffixes}
    \cup {<<Serializer(f)>> : f \in Serializers \ {"utf8"}}

InitNames == SeqsUpTo(Chars, MaxInitName) \ {<<>>}

RECURSIVE SubsetsUpTo(_, _)
SubsetsUpTo(S, k) ==
    IF k = 0 THEN {{}}
    ELSE LET T == SubsetsUpTo(S, k - 1)
         IN T \cup {t \cup {x} : t \in T, x \in S}

Init ==
    /\ dir \in {"dir", "missing", "blocked", "notdir"}
    /\ \E S \in SubsetsUpTo(InitNames, MaxFiles) :
         \E g \in [S -> Entries] :
            /\ dir # "dir" => S = {}
            /\ fs = [n \in Names |-> IF n \in S THEN g[n] ELSE NoEntry]
    /\ test \in Tests \cup {NilTest}
    /\ options \in OptionLists
    /\ opt = DefaultOptions("")
    /\ pc = "idle"
    /\ files = <<>>
    /\ found = FALSE
    /\ log = <<>>
    /\ runs = 0
    /\ dir0 = dir
    /\ fs0 = fs
    /\ prev = NoRun
    /\ changed = NoChange
    /\ errArg = NilError
    /\ errResult = NotCalled

\* -------------------------------------------------------------------- Run

\* Run, agenda.go:224-234: a missing directory is created in init mode and
\* fatal in regular mode. d is the state of the directory.
EnsureDir_CreatesInAnyMode(d, o) ==
    IF d = "missing"
    THEN [dir |-> "dir", fatal |-> FALSE,
          log |-> <<Ev("Stat", <<>>, <<>>, Nil, TRUE, "notexist"),
                    Ev("MkdirAll", <<>>, <<>>, Nil, FALSE, "")>>]
    ELSE [dir |-> d, fatal |-> d = "blocked",
          log |-> <<Ev("Stat", <<>>, <<>>, Nil, d = "blocked", "")>>]

EnsureDir(d, o) ==
    IF d \in {"missing", "blocked"}
    THEN IF ~o.initMode
         THEN [dir |-> d, fatal |-> TRUE,
               log |-> <<Ev("Stat", <<>>, <<>>, Nil, TRUE, "notexist"),
                         Fatalf(<<>>, "Snapshot directory doesn't exist")>>]
         ELSE IF d = "blocked"
         THEN [dir |-> d, fatal |-> TRUE,
               log |-> <<Ev("Stat", <<>>, <<>>, Nil, TRUE, "notexist"),
                         Ev("MkdirAll", <<>>, <<>>, Nil, TRUE, ""),
                         Fatalf(<<>>, "Can't create the snapshot directory")>>]
         ELSE [dir |-> "dir", fatal |-> FALSE,
               log |-> <<Ev("Stat", <<>>, <<>>, Nil, TRUE, "notexist"),
                         Ev("MkdirAll", <<>>, <<>>, Nil, FALSE, "")>>]
    ELSE [dir |-> d, fatal |-> FALSE,
          log |-> <<Ev("Stat", <<>>, <<>>, Nil, FALSE, "ok")>>]

\* Run, agenda.go:202-241: the nil check, the options, the directory and its
\* listing. arg0 is flag.Arg(0), mode the InitMode options of this call.
RunBegin_NilCheckAfterSetup(arg0, mode) ==
    /\ pc \in {"idle", "done", "fatal", "panic"}
    /\ runs < MaxRuns
    /\ runs' = runs + 1
    /\ prev' = IF runs = 0 THEN NoRun
               ELSE [ran |-> TRUE, opt |-> opt, pc |-> pc, log |-> log,
                     fs0 |-> fs0, fs |-> fs, changed |-> changed]
    /\ changed' = NoChange
    /\ dir0' = dir
    /\ fs0' = fs
    /\ found' = FALSE
    /\ UNCHANGED <<test, options, fs, errArg, errResult>>
    /\ LET o == ResolveOptions(arg0, options \o mode)
           d == EnsureDir(dir, o)
       IN  /\ opt' = o
           /\ dir' = d.dir
           /\ IF d.fatal
              THEN /\ pc' = "fatal"
                   /\ log' = d.log
                   /\ files' = <<>>
              ELSE IF d.dir = "notdir"
              THEN /\ pc' = "fatal"
                   /\ log' = d.log
                             \o <<Ev("ReadDir", <<>>, <<>>, Nil, TRUE, ""),
                                  Fatalf(<<>>, "Can't read the directory contents")>>
                   /\ files' = <<>>
              ELSE IF test = NilTest
              THEN /\ pc' = "panic"
                   /\ log' = d.log
                   /\ files' = <<>>
              ELSE /\ pc' = "loop"
                   /\ log' = d.log
                             \o <<Ev("ReadDir", <<>>, <<>>, Nil, FALSE, "")>>
                   /\ files' = ReadDir(fs)

RunBegin(arg0, mode) ==
    /\ pc \in {"idle", "done", "fatal", "panic"}
    /\ runs < MaxRuns
    /\ runs' = runs + 1
    /\ prev' = IF runs = 0 THEN NoRun
               ELSE [ran |-> TRUE, opt |-> opt, pc |-> pc, log |-> log,
                     fs0 |-> fs0, fs |-> fs, changed |-> changed]
    /\ changed' = NoChange
    /\ dir0' = dir
    /\ fs0' = fs
    /\ found' = FALSE
    /\ UNCHANGED <<test, options, fs, errArg, errResult>>
    /\ IF test = NilTest
       THEN /\ pc' = "panic"
            /\ log' = <<>>
            /\ files' = <<>>
            /\ UNCHANGED <<dir, opt>>
       ELSE LET o == ResolveOptions(arg0, options \o mode)
                d == EnsureDir(dir, o)
            IN  /\ opt' = o
                /\ dir' = d.dir
                /\ IF d.fatal
                   THEN /\ pc' = "fatal"
                        /\ log' = d.log
                        /\ files' = <<>>
                   ELSE IF d.dir = "notdir"
                   THEN /\ pc' = "fatal"
                        /\ log' = d.log
                                  \o <<Ev("ReadDir", <<>>, <<>>, Nil, TRUE, ""),
                                       Fatalf(<<>>, "Can't read the directory contents")>>
                        /\ files' = <<>>
                   ELSE /\ pc' = "loop"
                        /\ log' = d.log
                                  \o <<Ev("ReadDir", <<>>, <<>>, Nil, FALSE, "")>>
                        /\ files' = ReadDir(fs)

\* the loop's condition, agenda.go:245
Selected_AnyName(fsys, name, o) == fsys[name].kind # "dir"

Selected_IncludesDirs(fsys, name, o) == HasSuffix(name, o.fileSuffix)

Selected(fsys, name, o) ==
    /\ fsys[name].kind # "dir"
    /\ HasSuffix(name, o.fileSuffix)

\* Run, agenda.go:244-249: a listed entry that is not selected
SkipEntry ==
    /\ pc = "loop"
    /\ files # <<>>
    /\ ~Selected(fs, Head(files), opt)
    /\ files' = Tail(files)
    /\ UNCHANGED <<dir, fs, test, options, opt, pc, found, log, runs, dir0,
                   fs0, prev, changed, errArg, errResult>>

\* Run, agenda.go:244-249: a selected entry, and processFile for it. t.Fatalf
\* in processFile is runtime.Goexit: it ends Run as well.
ProcessEntry_ContinuesAfterFatal(diffErr) ==
    /\ pc = "loop"
    /\ files # <<>>
    /\ Selected(fs, Head(files), opt)
    /\ found' = TRUE
    /\ LET r == processFile(fs, Head(files), test, opt, diffErr)
       IN  /\ fs' = r.fs
           /\ log' = log \o r.log
    /\ pc' = "loop"
    /\ files' = Tail(files)
    /\ UNCHANGED <<dir, test, options, opt, runs, dir0, fs0, prev, changed,
                   errArg, errResult>>

ProcessEntry_StopsOnFailure(diffErr) ==
    /\ pc = "loop"
    /\ files # <<>>
    /\ Selected(fs, Head(files), opt)
    /\ found' = TRUE
    /\ LET r == processFile(fs, Head(files), test, opt, diffErr)
           failed == r.fatal \/ \E i \in DOMAIN r.log : r.log[i].ev = "Errorf"
       IN  /\ fs' = r.fs
           /\ log' = log \o r.log
           /\ pc' = IF failed THEN "fatal" ELSE "loop"
           /\ files' = IF failed THEN <<>> ELSE Tail(files)
    /\ UNCHANGED <<dir, test, options, opt, runs, dir0, fs0, prev, changed,
                   errArg, errResult>>

ProcessEntry(diffErr) ==
    /\ pc = "loop"
    /\ files # <<>>
    /\ Selected(fs, Head(files), opt)
    /\ found' = TRUE
    /\ LET r == processFile(fs, Head(files), test, opt, diffErr)
       IN  /\ fs' = r.fs
           /\ log' = log \o r.log
           /\ pc' = IF r.fatal THEN "fatal" ELSE "loop"
           /\ files' = IF r.fatal THEN <<>> ELSE Tail(files)
    /\ UNCHANGED <<dir, test, options, opt, runs, dir0, fs0, prev, changed,
                   errArg, errResult>>

\* Run, agenda.go:243-249: the whole loop over a listing, from directory
\* content fsys: the content it leaves, the fixtures a failure was reported
\* for, and whether t.Fatalf ended it.
RECURSIVE RunLoop(_, _, _, _)
RunLoop(fsys, listing, t, o) ==
    IF listing = <<>> THEN [fs |-> fsys, failed |-> {}, fatal |-> FALSE]
    ELSE IF ~Selected(fsys, Head(listing), o)
    THEN RunLoop(fsys, Tail(listing), t, o)
    ELSE LET r == processFile(fsys, Head(listing), t, o, FALSE)
             rest == RunLoop(r.fs, Tail(listing), t, o)
             failed == IF \E i \in DOMAIN r.log : r.log[i].ev \in {"Errorf", "Fatalf"}
                       THEN {Head(listing)} ELSE {}
         IN  IF r.fatal
             THEN [fs |-> r.fs, failed |-> failed, fatal |-> TRUE]
             ELSE [fs |-> rest.fs, failed |-> failed \cup rest.failed,
                   fatal |-> rest.fatal]

\* Run, agenda.go:251: no fixture was found, and the mode is regular
NoFilesFound_AnyMode(wasFound, o) == ~wasFound

NoFilesFound_Never(wasFound, o) == FALSE

NoFilesFound(wasFound, o) == ~wasFound /\ ~o.initMode

\* Run, agenda.go:251-254: after the loop
RunEnd ==
    /\ pc = "loop"
    /\ files = <<>>
    /\ IF NoFilesFound(found, opt)
       THEN /\ pc' = "fatal"
            /\ log' = log \o <<Fatalf(<<>>, "No files found")>>
       ELSE /\ pc' = "done"
            /\ UNCHANGED log
    /\ UNCHANGED <<dir, fs, test, options, opt, files, found, runs, dir0, fs0,
                   prev, changed, errArg, errResult>>

\* Between two runs, someone changes one byte of one file of the directory.
ChangeByte(path, i, b) ==
    /\ pc \in {"done", "fatal"}
    /\ runs < MaxRuns
    /\ changed = NoChange
    /\ fs[path].kind = "file"
    /\ i \in 1..Len(fs[path].data)
    /\ b # fs[path].data[i]
    /\ fs' = [fs EXCEPT ![path].data[i] = b]
    /\ changed' = [kind |-> "byte", path |-> path]
    /\ UNCHANGED <<dir, test, options, opt, pc, files, found, log, runs, dir0,
                   fs0, prev, errArg, errResult>>

ModeOptions == {<<>>, <<InitMode(TRUE)>>, <<InitMode(FALSE)>>}

Next ==
    \/ \E arg0 \in {"init", ""}, mode \in ModeOptions : RunBegin(arg0, mode)
    \/ SkipEntry
    \/ \E diffErr \in BOOLEAN : ProcessEntry(diffErr)
    \/ RunEnd
    \/ \E path \in Names, i \in 1..MaxLen, b \in Byte : ChangeByte(path, i, b)

Spec == Init /\ [][Next]_vars

\* ------------------------------------------------ Run with any option list

\* The specification of a test program that passes any list of up to
\* MaxOptions options to Run, over a directory that holds one fixture and its
\* reference.
SuffixValues == {<<>>, <<"j">>, <<"r">>}

OptionValues ==
    {FileSuffix(a) : a \in SuffixValues}
    \cup {ResultSuffix(b) : b \in SuffixValues}
    \cup {InitMode(e) : e \in BOOLEAN}
    \cup {Serializer(f) : f \in Serializers}

InitOpt ==
    /\ dir = "dir"
    /\ fs = [n \in Names |-> IF n \in {<<"j">>, <<"j", "r">>}
                             THEN File(<<>>) ELSE NoEntry]
    /\ test = "echo"
    /\ options \in SeqsUpTo(OptionValues, MaxOptions)
    /\ opt = DefaultOptions("")
    /\ pc = "idle"
    /\ files = <<>>
    /\ found = FALSE
    /\ log = <<>>
    /\ runs = 0
    /\ dir0 = dir
    /\ fs0 = fs
    /\ prev = NoRun
    /\ changed = NoChange
    /\ errArg = NilError
    /\ errResult = NotCalled

NextOpt ==
    \/ \E arg0 \in {"init", ""} : RunBegin(arg0, <<>>)
    \/ SkipEntry
    \/ \E diffErr \in BOOLEAN : ProcessEntry(diffErr)
    \/ RunEnd

SpecOpt == InitOpt /\ [][NextOpt]_vars

\* ------------------------------------------------------ SerializableError

\* The specification of a caller of SerializableError (a test callback that
\* puts its error into its output, TestSerializableError): it calls the
\* function with nil, then with one error after another.
InitErr ==
    /\ dir = "dir"
    /\ fs = EmptyDir
    /\ test = "echo"
    /\ options = <<>>
    /\ opt = DefaultOptions("")
    /\ pc = "idle"
    /\ files = <<>>
    /\ found = FALSE
    /\ log = <<>>
    /\ runs = 0
    /\ dir0 = dir
    /\ fs0 = fs
    /\ prev = NoRun
    /\ changed = NoChange
    /\ errArg = NilError
    /\ errResult = NotCalled

CallSerializableError ==
    /\ errResult = NotCalled
    /\ errResult' = SerializableError(errArg)
    /\ UNCHANGED <<dir, fs, test, options, opt, pc, files, found, log, runs,
                   dir0, fs0, prev, changed, errArg>>

NextCall(e) ==
    /\ errResult # NotCalled
    /\ errArg' = e
    /\ errResult' = NotCalled
    /\ UNCHANGED <<dir, fs, test, options, opt, pc, files, found, log, runs,
                   dir0, fs0, prev, changed>>

NextErr ==
    \/ CallSerializableError
    \/ \E e \in Errors : NextCall(e)

SpecErr == InitErr /\ [][NextErr]_vars

\* ------------------------------------------------------------- properties

\* a run has ended (Run returned, or t.Fatalf ended the test) and nothing
\* has touched the directory since
Ended == pc \in {"done", "fatal"} /\ changed = NoChange

Returned == pc = "done" /\ changed = NoChange

EndsWith(s, t) ==
    \E k \in 0..Len(s) : /\ k + Len(t) = Len(s)
                         /\ \A i \in 1..Len(t) : s[k + i] = t[i]

\* the fixtures a run with options o selects in directory content fsys
Fixtures(fsys, o) ==
    {n \in Names : fsys[n].kind \in {"file", "locked"} /\ EndsWith(n, o.fileSuffix)}

Exists(fsys, path) == path \in Names /\ fsys[path].kind # "none"

Holds(fsys, path, data) == path \in Names /\ fsys[path] = File(data)

\* the positions of record l that hold a call ev made for fixture n
Calls(l, ev, n) == {i \in DOMAIN l : l[i].ev = ev /\ l[i].name = n}

\* the positions of l that report a failure, recoverable or fatal
Failures(l) == {i \in DOMAIN l : l[i].ev \in {"Errorf", "Fatalf"}}

FailuresOf(l, n) == {i \in Failures(l) : l[i].name = n}

\* the callback returned no error in record l
ErrorFree(l) == \A i \in DOMAIN l : l[i].ev = "test" => ~l[i].err

\* C1: after a run in init mode that ended without a fatal failure, every
\* selected fixture f has been passed to the callback and the file at
\* f + resultSuffix holds exactly the bytes the callback returned for f.
C1_InitWritesOutput ==
    (Returned /\ opt.initMode) =>
        \A n \in Fixtures(fs0, opt) :
            /\ Cardinality(Calls(log, "test", n)) = 1
            /\ \A i \in Calls(log, "test", n) :
                  Holds(fs, n \o opt.resultSuffix, log[i].out.b)

\* C1 witness: an init run has replaced a reference that held other bytes.
C1_Witness ==
    /\ Returned /\ opt.initMode
    /\ \E n \in Fixtures(fs0, opt) :
          /\ n \o opt.resultSuffix \in Names
          /\ n \o opt.resultSuffix \notin Fixtures(fs0, opt)
          /\ fs0[n \o opt.resultSuffix].kind = "file"
          /\ fs0[n \o opt.resultSuffix] # fs[n \o opt.resultSuffix]

\* the current run is a regular-mode run that follows an init-mode run of
\* the same program with nothing changed in between
InitThenRegular ==
    /\ prev.ran /\ prev.opt.initMode /\ prev.pc \in {"done", "fatal"}
    /\ prev.changed = NoChange
    /\ Ended /\ ~opt.initMode
    /\ opt = [prev.opt EXCEPT !.initMode = FALSE]

\* no reference path of the fixtures selected in fsys is itself a fixture name
NoReferenceIsFixture(fsys, o) ==
    \A n \in Fixtures(fsys, o) : ~EndsWith(n \o o.resultSuffix, o.fileSuffix)

\* C2 as stated: an init run (that ended without a fatal failure) followed by
\* a regular run, same options whatever they are, nothing changed in between,
\* a callback that returns no error: the regular run reports no failure and
\* no fatal for any fixture.
C2_RoundTripAnyOptions ==
    (/\ InitThenRegular /\ ErrorFree(prev.log) /\ ErrorFree(log)
     /\ prev.pc = "done") =>
        \A i \in Failures(log) : log[i].name = <<>>

\* C2 amended: the same, provided the init run ended without a fatal failure
\* and no selected fixture's reference path ends with the file suffix. Every
\* fixture is then compared and found equal, nil and empty output included.
C2_RoundTrip ==
    (/\ InitThenRegular /\ ErrorFree(prev.log) /\ ErrorFree(log)
     /\ prev.pc = "done"
     /\ NoReferenceIsFixture(prev.fs0, prev.opt)) =>
        /\ \A i \in Failures(log) : log[i].name = <<>>
        /\ \A n \in Fixtures(prev.fs0, prev.opt) :
              /\ Cardinality(Calls(log, "bytes.Equal", n)) = 1
              /\ \A i \in Calls(log, "bytes.Equal", n) : ~log[i].err
        /\ Fixtures(prev.fs0, prev.opt) # {} => pc = "done"

\* C2 witness: the round trip of a fixture for which the callback returns nil.
C2_Witness ==
    /\ InitThenRegular /\ prev.pc = "done" /\ pc = "done"
    /\ NoReferenceIsFixture(prev.fs0, prev.opt)
    /\ \E i \in DOMAIN log : log[i].ev = "test" /\ log[i].out = Nil /\ ~log[i].err

\* C3: in regular mode, for a fixture whose callback was called (its input
\* and reference were read) and returned no error, a failure is reported if
\* and only if the output differs from the stored reference, byte for byte;
\* a mismatch is reported once, equal bytes not at all.
C3_FailureIffDifferent ==
    ~opt.initMode =>
        \A i \in DOMAIN log :
            (log[i].ev = "test" /\ ~log[i].err) =>
                LET n == log[i].name
                    p == n \o opt.resultSuffix
                IN  /\ p \in Names /\ fs0[p].kind = "file"
                    /\ IF log[i].out.b = fs0[p].data
                       THEN FailuresOf(log, n) = {}
                       ELSE /\ Cardinality(FailuresOf(log, n)) = 1
                            /\ \A j \in FailuresOf(log, n) : log[j].ev = "Errorf"

\* C3 witness: one regular run has passed a fixture whose output equals its
\* reference and reported another whose output differs.
C3_Witness ==
    /\ Returned /\ ~opt.initMode /\ ErrorFree(log)
    /\ NoReferenceIsFixture(fs0, opt)
    /\ \E i, j \in DOMAIN log :
          /\ log[i].ev = "test" /\ log[j].ev = "test"
          /\ FailuresOf(log, log[i].name) = {}
          /\ FailuresOf(log, log[j].name) # {}

\* an init run that returned, then one byte of the reference of one of its
\* fixtures was changed, then a regular run with the same options
InitChangeRegular ==
    /\ prev.ran /\ prev.opt.initMode /\ prev.pc = "done"
    /\ prev.changed.kind = "byte"
    /\ \E n \in Fixtures(prev.fs0, prev.opt) :
          prev.changed.path = n \o prev.opt.resultSuffix
    /\ Ended /\ ~opt.initMode
    /\ opt = [prev.opt EXCEPT !.initMode = FALSE]
    /\ ErrorFree(prev.log) /\ ErrorFree(log)

\* C4 as stated: after an init run with an error-free callback and a change
\* of one byte in one fixture's reference, the regular run reports exactly
\* one failure, for that fixture, whatever the options are.
C4_OneFailureAnyOptions ==
    InitChangeRegular =>
        /\ Cardinality(Failures(log)) = 1
        /\ \A i \in Failures(log) :
              log[i].name \o opt.resultSuffix = prev.changed.path

\* C4 amended: the same, provided no selected fixture's reference path ends
\* with the file suffix; the one failure is a recoverable one and Run returns.
C4_OneFailure ==
    (InitChangeRegular /\ NoReferenceIsFixture(prev.fs0, prev.opt)) =>
        /\ Cardinality(Failures(log)) = 1
        /\ \A i \in Failures(log) :
              /\ log[i].ev = "Errorf"
              /\ log[i].name \o opt.resultSuffix = prev.changed.path
        /\ pc = "done"

\* C4 witness: two fixtures, the reference of one changed, one failure.
C4_Witness ==
    /\ InitChangeRegular /\ NoReferenceIsFixture(prev.fs0, prev.opt)
    /\ Cardinality(Fixtures(prev.fs0, prev.opt)) = 2
    /\ Cardinality(Failures(log)) = 1

\* the paths a run has written
Written(l) == {l[i].path : i \in {j \in DOMAIN l : l[j].ev = "WriteFile" /\ ~l[j].err}}

\* C5: two init runs in succession with the same options and callback and
\* the same fixture files (names and contents) before each: the second run
\* leaves the same reference files with the same contents as the first.
C5_InitIdempotent ==
    (/\ prev.ran /\ prev.opt.initMode /\ prev.pc \in {"done", "fatal"}
     /\ prev.changed = NoChange
     /\ Ended /\ opt = prev.opt
     /\ Fixtures(fs0, opt) = Fixtures(prev.fs0, prev.opt)
     /\ \A n \in Fixtures(fs0, opt) : fs0[n] = prev.fs0[n]) =>
        /\ Written(log) = Written(prev.log)
        /\ \A p \in Written(log) : fs[p] = prev.fs[p]
        /\ fs = prev.fs

\* C5 witness: the second of two init runs has written a reference again.
C5_Witness ==
    /\ prev.ran /\ prev.opt.initMode /\ prev.pc = "done"
    /\ prev.changed = NoChange
    /\ pc = "done" /\ changed = NoChange /\ opt = prev.opt
    /\ Fixtures(fs0, opt) = Fixtures(prev.fs0, prev.opt)
    /\ \A n \in Fixtures(fs0, opt) : fs0[n] = prev.fs0[n]
    /\ \E p \in Written(log) : fs[p].data # <<>> /\ prev.fs0[p] # fs[p]

\* the callback's error is reported for fixture n in record l
ErrorReported(l, n) ==
    \E j \in DOMAIN l : l[j] = Errorf(n, "Error during test() call")

\* C6: whenever the callback returns an error for a fixture, a recoverable
\* failure is reported for that fixture, in init mode and in regular mode,
\* whether or not the bytes it returned equal the reference.
C6_CallbackErrorReported ==
    /\ \A i \in DOMAIN log :
          (log[i].ev = "test" /\ log[i].err) => ErrorReported(log, log[i].name)
    /\ \A i \in DOMAIN prev.log :
          (prev.log[i].ev = "test" /\ prev.log[i].err) =>
              ErrorReported(prev.log, prev.log[i].name)

\* C6 witness: the callback returned an error in an init run, and in the
\* regular run after it an error with bytes equal to the reference: the error
\* is the only failure reported for the fixture.
C6_Witness ==
    /\ InitThenRegular /\ pc = "done"
    /\ NoReferenceIsFixture(prev.fs0, prev.opt)
    /\ \E i \in DOMAIN prev.log : prev.log[i].ev = "test" /\ prev.log[i].err
    /\ \E i, j \in DOMAIN log :
          /\ log[i].ev = "test" /\ log[i].err
          /\ log[j].ev = "bytes.Equal" /\ ~log[j].err
          /\ log[j].name = log[i].name
          /\ Cardinality(FailuresOf(log, log[i].name)) = 1

\* C7: every call a run makes for a fixture (reading it, the callback, the
\* reference read or written for it) is for a directory entry whose name ends
\* with the file suffix; an entry whose name does not end with it is not
\* read as a fixture and no reference is written for it.
C7_SuffixFiltering ==
    /\ \A i \in DOMAIN log :
          log[i].name # <<>> =>
              /\ EndsWith(log[i].name, opt.fileSuffix)
              /\ fs0[log[i].name].kind # "none"
              /\ log[i].ev = "WriteFile" =>
                    log[i].path = log[i].name \o opt.resultSuffix
    /\ \A n \in Names :
          ~EndsWith(n, opt.fileSuffix) =>
              /\ Calls(log, "test", n) = {}
              /\ Calls(log, "ReadFile", n) = {}
              /\ \A i \in DOMAIN log :
                    log[i].ev = "WriteFile" =>
                        log[i].path # n \o opt.resultSuffix

\* C7 witness: a run over a directory that holds a file whose name does not
\* end with the file suffix has processed another file and returned.
C7_Witness ==
    /\ Returned /\ opt.initMode
    /\ \E n \in Names : fs0[n].kind = "file" /\ ~EndsWith(n, opt.fileSuffix)
    /\ \E i \in DOMAIN log : log[i].ev = "WriteFile"

\* C8: the directory exists and holds no entry selected as a fixture: a run
\* in regular mode ends with a fatal failure, a run in init mode returns
\* without any failure.
C8_EmptySetPolicy ==
    (runs > 0 /\ Ended /\ dir0 = "dir" /\ Fixtures(fs0, opt) = {}) =>
        IF opt.initMode
        THEN pc = "done" /\ Failures(log) = {}
        ELSE /\ pc = "fatal"
             /\ Failures(log) = {Len(log)}
             /\ log[Len(log)] = Fatalf(<<>>, "No files found")

\* C8 witness: over the same directory, which holds entries but no fixture,
\* an init run returned without failure and a regular run ended fatally.
C8_Witness ==
    /\ InitThenRegular /\ prev.pc = "done" /\ Failures(prev.log) = {}
    /\ dir0 = "dir" /\ fs0 # EmptyDir /\ Fixtures(fs0, opt) = {}
    /\ pc = "fatal"

\* a call ev is in record l
Made(l, ev) == \E i \in DOMAIN l : l[i].ev = ev

\* C9: the directory does not exist. A regular run ends fatally, creates
\* nothing and calls no callback; an init run creates the directory, finds
\* it empty and ends without failure; if the creation fails, the init run
\* ends fatally and calls no callback.
C9_MissingDirectory ==
    (runs > 0 /\ pc # "panic" /\ dir0 \in {"missing", "blocked"}) =>
        /\ ~Made(log, "test")
        /\ fs = EmptyDir
        /\ IF opt.initMode /\ dir0 = "missing"
           THEN /\ dir = "dir"
                /\ pc \in {"loop", "done"}
                /\ Failures(log) = {}
                /\ Made(log, "MkdirAll")
           ELSE /\ dir = dir0
                /\ pc = "fatal"
                /\ Failures(log) = {Len(log)}
                /\ log[Len(log)].ev = "Fatalf"
                /\ ~opt.initMode => ~Made(log, "MkdirAll")

\* C9 witness: an init run has created the missing directory and returned.
C9_Witness ==
    /\ dir0 = "missing" /\ dir = "dir" /\ pc = "done" /\ opt.initMode

\* C10: in regular mode, when the file at fixture path + resultSuffix does
\* not exist, a fatal failure is reported for the fixture, no comparison is
\* made for it and the reference file is not created.
C10_MissingReference ==
    ~opt.initMode =>
        \A i \in DOMAIN log :
            (/\ log[i].ev = "ReadFile" /\ log[i].path = log[i].name
             /\ log[i].why = ""
             /\ ~Exists(fs0, log[i].name \o opt.resultSuffix)) =>
                LET n == log[i].name
                IN  /\ \E j \in FailuresOf(log, n) : log[j].ev = "Fatalf"
                    /\ Calls(log, "bytes.Equal", n) = {}
                    /\ ~Exists(fs, n \o opt.resultSuffix)
                    /\ pc = "fatal"

\* C10 witness: a regular run has read a fixture that has no reference file.
C10_Witness ==
    /\ ~opt.initMode /\ pc = "fatal"
    /\ \E i \in DOMAIN log :
          /\ log[i].ev = "ReadFile" /\ log[i].path = log[i].name /\ ~log[i].err
          /\ log[i].name \o opt.resultSuffix \in Names
          /\ ~Exists(fs0, log[i].name \o opt.resultSuffix)
    /\ log[Len(log)].why = "doesn't exist"

\* C11: a run in regular mode, whatever its outcome, leaves the directory
\* and every entry of it as they were when it began and makes no call that
\* creates or writes a file or a directory; such calls are made by runs in
\* init mode only.
C11_RegularReadOnly ==
    (runs > 0 /\ pc # "panic" /\ changed = NoChange) =>
        /\ ~opt.initMode => (fs = fs0 /\ dir = dir0)
        /\ \A i \in DOMAIN log :
              log[i].ev \in {"WriteFile", "MkdirAll"} => opt.initMode

\* C11 witness: a regular run has reported a callback error and a mismatch
\* for a fixture and returned.
C11_Witness ==
    /\ Returned /\ ~opt.initMode
    /\ \E i, j \in DOMAIN log :
          /\ log[i] = Errorf(log[i].name, "Error during test() call")
          /\ log[j] = Errorf(log[i].name, "Here's the diff")

\* the positions of record l that hold a fatal failure raised while a fixture
\* was being processed
FixtureFatals(l) == {i \in DOMAIN l : l[i].ev = "Fatalf" /\ l[i].name # <<>>}

\* the fixtures of a run that has ended for which processFile was entered
Processed(l, fixtures) == {n \in fixtures : Calls(l, "ReadFile", n) # {}}

\* C12 as stated: when a run has ended, every selected fixture has been
\* processed, also when a fatal failure was raised for one of them (here
\* with the default suffixes).
C12_FixturesIndependent ==
    (/\ runs > 0 /\ Ended /\ FixtureFatals(log) # {}
     /\ opt.fileSuffix = <<"j">> /\ opt.resultSuffix = <<"r">>) =>
        Processed(log, Fixtures(fs0, opt)) = Fixtures(fs0, opt)

\* C12 amended: a fatal failure raised while a fixture is processed ends the
\* run. It is the last call of the run, the fixtures listed before the
\* failing one have been processed, and no call is made for a fixture listed
\* after it.
C12_FatalEndsRun ==
    \A i \in FixtureFatals(log) :
        /\ i = Len(log)
        /\ pc = "fatal"
        /\ files = <<>>
        /\ \A n \in Fixtures(fs0, opt) :
              /\ NameLess(n, log[i].name) => n \in Processed(log, {n})
              /\ NameLess(log[i].name, n) =>
                    \A j \in DOMAIN log : log[j].name # n

\* C12 witness: a run has ended with a fatal failure for one fixture and a
\* fixture listed after it was never read.
C12_Witness ==
    /\ Ended /\ pc = "fatal"
    /\ \E i \in FixtureFatals(log) :
          \E n \in Fixtures(fs0, opt) :
              /\ NameLess(log[i].name, n)
              /\ fs0[n].kind = "file"
              /\ Calls(log, "ReadFile", n) = {}

\* fixture n was loaded, passed to the callback and reconciled (compared in
\* regular mode, written in init mode) in record l
FullyProcessed(l, n) ==
    /\ \E i \in Calls(l, "ReadFile", n) : l[i].path = n /\ ~l[i].err
    /\ Calls(l, "test", n) # {}
    /\ Calls(l, "bytes.Equal", n) \cup Calls(l, "WriteFile", n) # {}

\* the positions of record l that hold a recoverable failure
Recoverables(l) == {i \in DOMAIN l : l[i].ev = "Errorf"}

FailedFixtures(l) == {l[i].name : i \in Failures(l)} \ {<<>>}

\* C14: a run that has ended reports failure for the fixtures, and leaves the
\* files, that a run over the same directory content with the same mode and
\* callback and any other serializer (UTF-8, binary, one that fails, nil)
\* reports and leaves; the serializer is called neither in init mode nor for
\* a fixture whose output equals its reference.
C14_SerializerNoInfluence ==
    /\ (runs > 0 /\ Ended /\ dir0 = "dir") =>
          \A f \in Serializers :
              LET other == RunLoop(fs0, ReadDir(fs0), test,
                                   [opt EXCEPT !.serializeFunc = f])
              IN  /\ other.failed = FailedFixtures(log)
                  /\ other.fs = fs
                  /\ other.fatal = (FixtureFatals(log) # {})
    /\ \A i \in DOMAIN log :
          log[i].ev = "serializeFunc" =>
              /\ ~opt.initMode
              /\ \E j \in Calls(log, "bytes.Equal", log[i].name) :
                    j < i /\ log[j].err

\* C14 witness: a regular run with a serializer that fails on the reference
\* has reported the mismatch and returned, after passing another fixture.
C14_Witness ==
    /\ Returned /\ ~opt.initMode /\ opt.serializeFunc = "strict"
    /\ \E i \in DOMAIN log :
          log[i].why = "serializing reference output data failed"
    /\ \E n \in Fixtures(fs0, opt) :
          FullyProcessed(log, n) /\ FailuresOf(log, n) = {}

\* the positions of option list ops that hold an option of kind nm
Touching(ops, nm) == {i \in DOMAIN ops : ops[i].name = nm}

\* the last option of kind nm in ops
LastOption(ops, nm) ==
    ops[CHOOSE i \in Touching(ops, nm) : \A j \in Touching(ops, nm) : j <= i]

\* field by field: the value of the last option that touches the field, the
\* default if none does
Effective(arg0, ops) ==
    [fileSuffix    |-> IF Touching(ops, "FileSuffix") = {} THEN <<"j">>
                       ELSE LastOption(ops, "FileSuffix").suffix,
     resultSuffix  |-> IF Touching(ops, "ResultSuffix") = {} THEN <<"r">>
                       ELSE LastOption(ops, "ResultSuffix").suffix,
     initMode      |-> IF Touching(ops, "InitMode") = {} THEN arg0 = "init"
                       ELSE LastOption(ops, "InitMode").enabled,
     serializeFunc |-> IF Touching(ops, "Serializer") = {} THEN "utf8"
                       ELSE LastOption(ops, "Serializer").f]

\* C15: the option set a call of Run resolves is, field by field, the value
\* set by the last of the caller's options that touches the field, and the
\* default (".json", ".result", init mode iff the first program argument is
\* "init", the UTF-8 serializer) for a field no option touches.
C15_OptionResolution ==
    [][\A arg0 \in {"init", ""} :
          RunBegin(arg0, <<>>) => opt' = Effective(arg0, options)]_vars

\* C15 witness: Run was called with three options, two of them FileSuffix
\* with different values and none a ResultSuffix.
C15_Witness ==
    /\ runs > 0 /\ Len(options) = 3
    /\ Touching(options, "ResultSuffix") = {}
    /\ opt.resultSuffix = <<"r">>
    /\ \E i, j \in Touching(options, "FileSuffix") :
          /\ i < j
          /\ options[i].suffix # options[j].suffix
          /\ opt.fileSuffix = options[j].suffix

\* the InitMode options of list ops all carry the value b
InitModeSupplied(ops, b) ==
    /\ Touching(ops, "InitMode") # {}
    /\ \A i \in Touching(ops, "InitMode") : ops[i].enabled = b

\* C16: a call of Run that is passed InitMode(b) runs in mode b whether the
\* first program argument is "init" or not; a call that is passed no
\* InitMode option runs in init mode if and only if that argument is "init".
C16_ModeSelection ==
    [][\A arg0 \in {"init", ""} :
          RunBegin(arg0, <<>>) =>
              /\ \A b \in BOOLEAN :
                    InitModeSupplied(options, b) => opt'.initMode = b
              /\ Touching(options, "InitMode") = {} =>
                    opt'.initMode = (arg0 = "init")]_vars

\* C16 witness: a run that was passed InitMode(false) after other options has
\* compared its fixture in regular mode and returned; the step that began it
\* was taken for either value of the first program argument.
C16_Witness ==
    /\ pc = "done" /\ ~opt.initMode
    /\ InitModeSupplied(options, FALSE)
    /\ options[Len(options)] = InitMode(FALSE)
    /\ Len(options) > 1
    /\ \E i \in DOMAIN log : log[i].ev = "bytes.Equal"

\* C17: Run called with a nil test callback panics: no option has been
\* applied, the directory and its entries are as they were (a missing
\* directory is still missing, whatever the mode asked for), and nothing has
\* been reported or called.
C17_NilCallback ==
    (test = NilTest /\ runs > 0) =>
        /\ pc = "panic"
        /\ opt = DefaultOptions("")
        /\ dir = dir0 /\ fs = fs0
        /\ log = <<>> /\ files = <<>> /\ ~found

\* C17 witness: Run was called twice with a nil callback and an option, for
\* a directory that does not exist.
C17_Witness ==
    /\ test = NilTest /\ pc = "panic" /\ runs > 1
    /\ options # <<>>
    /\ dir = "missing"

\* C18: the calls a run makes for one fixture are consecutive, and fixtures
\* come in lexicographic order of their names; when Run has returned, every
\* selected fixture has been read once, passed to the callback once and
\* reconciled once, and nothing else was processed.
C18_SequentialInOrder ==
    /\ \A i, j \in DOMAIN log :
          (i < j /\ log[i].name # <<>> /\ log[j].name # <<>>) =>
              \/ log[i].name = log[j].name
                 /\ \A k \in i..j : log[k].name = log[i].name
              \/ NameLess(log[i].name, log[j].name)
    /\ (runs > 0 /\ pc = "done") =>
          /\ {log[i].name : i \in DOMAIN log} \ {<<>>} = Fixtures(fs0, opt)
          /\ \A n \in Fixtures(fs0, opt) :
                /\ Cardinality({i \in Calls(log, "ReadFile", n) : log[i].path = n
                                                                   /\ log[i].why = ""}) = 1
                /\ Cardinality(Calls(log, "test", n)) = 1
                /\ Cardinality(Calls(log, "bytes.Equal", n)
                               \cup Calls(log, "WriteFile", n)) = 1
                /\ FullyProcessed(log, n)

\* C18 witness: Run has returned after processing two fixtures, the second
\* of which is not the first with characters appended.
C18_Witness ==
    /\ pc = "done" /\ runs > 0
    /\ \E n, m \in Fixtures(fs0, opt) :
          /\ NameLess(n, m) /\ Head(n) # Head(m)
          /\ \E i \in Calls(log, "test", n) :
                \E j \in Calls(log, "ReadFile", m) : i < j

\* option set o has non-empty, different suffixes
SuffixesValid(o) ==
    /\ o.fileSuffix # <<>>
    /\ o.resultSuffix # <<>>
    /\ o.resultSuffix # o.fileSuffix

\* the suffixes the caller asks for with option list ops: those of its last
\* FileSuffix and ResultSuffix options, the defaults where it has none
GivenSuffixes(ops) ==
    [fileSuffix   |-> IF Touching(ops, "FileSuffix") = {} THEN <<"j">>
                      ELSE LastOption(ops, "FileSuffix").suffix,
     resultSuffix |-> IF Touching(ops, "ResultSuffix") = {} THEN <<"r">>
                      ELSE LastOption(ops, "ResultSuffix").suffix]

\* C19 as stated: the option set a call of Run has resolved has a non-empty
\* fileSuffix, a non-empty resultSuffix and a resultSuffix different from the
\* fileSuffix, whatever options the caller passed.
C19_SuffixInvariantAlways ==
    runs > 0 => SuffixesValid(opt)

\* C19 amended: the resolved option set has non-empty, different suffixes
\* exactly when the suffixes the caller asks for are non-empty and different;
\* Run takes them as given.
C19_SuffixesAsGiven ==
    runs > 0 =>
        /\ opt.fileSuffix = GivenSuffixes(options).fileSuffix
        /\ opt.resultSuffix = GivenSuffixes(options).resultSuffix
        /\ SuffixesValid(opt) <=> SuffixesValid(GivenSuffixes(options))

\* C19 witness: the caller passed an empty file suffix, then the two default
\* suffixes swapped; the run has returned with the swapped suffixes.
C19_Witness ==
    /\ pc = "done"
    /\ options = <<FileSuffix(<<>>), FileSuffix(<<"r">>), ResultSuffix(<<"j">>)>>
    /\ opt.fileSuffix = <<"r">> /\ opt.resultSuffix = <<"j">>

\* C20: SerializableError returns nil for a nil error and, for a non-nil
\* error, the string that is the error's message (for an error with an empty
\* message, the empty string, not nil); it never returns an error value.
C20_SerializableError ==
    errResult # NotCalled =>
        /\ errArg = NilError => errResult = NilValue
        /\ errArg # NilError =>
              errResult.kind = "string" /\ errResult.msg = errArg.msg
        /\ errResult.kind # "error"

\* C20 witness: SerializableError, called with an error whose message is
\* empty, has returned a string and not nil.
C20_Witness ==
    /\ errArg = NewError(<<>>)
    /\ errResult.kind = "string"
    /\ errResult # NilValue

\* the positions of record l that hold the read of fixture n itself
FixtureReads(l, n) ==
    {i \in Calls(l, "ReadFile", n) : l[i].path = n /\ l[i].why = ""}

\* the positions of record l that hold a look-up or a read of the reference
\* of fixture n
ReferenceLoads(l, n) ==
    Calls(l, "Stat", n) \cup {i \in Calls(l, "ReadFile", n) : l[i].why = "reference"}

\* the positions of record l that hold the comparison or the write for n
Reconciles(l, n) == Calls(l, "bytes.Equal", n) \cup Calls(l, "WriteFile", n)

\* every position of S comes before every position of T
Before(S, T) == \A i \in S, j \in T : i < j

\* C21 as stated: in regular mode the callback is called for every fixture
\* whose input was read, and the reference is looked up and read only after
\* the callback has returned (here with the default suffixes).
C21_ReferenceAfterCallback ==
    (~opt.initMode /\ opt.fileSuffix = <<"j">> /\ opt.resultSuffix = <<"r">>) =>
        \A i \in DOMAIN log :
            (log[i].ev = "ReadFile" /\ log[i].why = "" /\ ~log[i].err) =>
                /\ Calls(log, "test", log[i].name) # {}
                /\ Before(Calls(log, "test", log[i].name),
                          ReferenceLoads(log, log[i].name))

\* C21 amended: for each fixture the calls come in the order: read the
\* fixture; in regular mode, look up and read the reference; the callback;
\* the comparison or the write. The callback is called exactly for the
\* fixtures whose input was read and, in regular mode, whose reference was
\* found and read; in init mode the reference is not looked up or read.
C21_PhaseOrder ==
    \A i \in DOMAIN log :
        log[i].name # <<>> =>
            LET n == log[i].name
                loaded == /\ \E j \in FixtureReads(log, n) : ~log[j].err
                          /\ \A j \in ReferenceLoads(log, n) : log[j].why # "notexist"
                          /\ \A j \in ReferenceLoads(log, n) :
                                log[j].ev = "ReadFile" => ~log[j].err
            IN  /\ Before(FixtureReads(log, n), ReferenceLoads(log, n))
                /\ Before(FixtureReads(log, n), Calls(log, "test", n))
                /\ Before(ReferenceLoads(log, n), Calls(log, "test", n))
                /\ Before(Calls(log, "test", n), Reconciles(log, n))
                /\ Calls(log, "test", n) # {} <=> loaded
                /\ opt.initMode => ReferenceLoads(log, n) = {}
                /\ (~opt.initMode /\ Calls(log, "test", n) # {}) =>
                      \E j \in ReferenceLoads(log, n) :
                          log[j].ev = "ReadFile" /\ ~log[j].err

\* C21 witness: a regular run has read a fixture for which the callback
\* returns an error, found no reference for it and ended fatally: the
\* callback was not called and its error is not reported.
C21_Witness ==
    /\ ~opt.initMode /\ pc = "fatal" /\ test = "parse"
    /\ NoReferenceIsFixture(fs0, opt)
    /\ \E n \in Fixtures(fs0, opt) :
          /\ fs0[n] = File(<<>>)
          /\ log[Len(log)] = Fatalf(n, "doesn't exist")
          /\ Calls(log, "test", n) = {}
          /\ FailuresOf(log, n) = {Len(log)}

\* what C22 says of a record l of a run with options o that began with
\* directory content before: after a callback error for a fixture, the bytes
\* the callback returned are written to the reference path (init mode) or
\* compared with the reference, a mismatch being one more failure beside the
\* callback's error (regular mode)
ReconciledAfterError(l, o, before) ==
    \A i \in DOMAIN l :
        (l[i].ev = "test" /\ l[i].err) =>
            LET n == l[i].name
                p == n \o o.resultSuffix
            IN  IF o.initMode
                THEN \E j \in Calls(l, "WriteFile", n) :
                        /\ j > i
                        /\ l[j].path = p
                        /\ l[j].out = l[i].out
                        /\ l[j].err => l[j + 1] = Fatalf(n, "Can't save file")
                ELSE /\ \E j \in Calls(l, "bytes.Equal", n) :
                          /\ j > i
                          /\ l[j].err <=> (l[i].out.b # before[p].data)
                     /\ \A j \in FailuresOf(l, n) : l[j].ev = "Errorf"
                     /\ Cardinality(FailuresOf(l, n)) =
                          IF l[i].out.b # before[p].data THEN 2 ELSE 1

\* C22: the above for the current run and for the one before it; and when an
\* init run has returned, the reference of a fixture whose callback returned
\* an error holds the bytes it returned, an empty file for nil.
C22_ReconcileAfterError ==
    /\ ReconciledAfterError(log, opt, fs0)
    /\ ReconciledAfterError(prev.log, prev.opt, prev.fs0)
    /\ (Returned /\ opt.initMode) =>
          \A i \in DOMAIN log :
              (log[i].ev = "test" /\ log[i].err) =>
                  Holds(fs, log[i].name \o opt.resultSuffix, log[i].out.b)

\* C22 witness: a regular run reported a callback error and a mismatch for a
\* fixture; the init run after it has replaced the fixture's non-empty
\* reference by an empty file, the callback having returned nil and an error.
C22_Witness ==
    /\ prev.ran /\ ~prev.opt.initMode /\ prev.pc = "done"
    /\ Returned /\ opt.initMode
    /\ NoReferenceIsFixture(fs0, opt)
    /\ \E i \in DOMAIN log :
          /\ log[i].ev = "test" /\ log[i].err /\ log[i].out = Nil
          /\ Cardinality(FailuresOf(prev.log, log[i].name)) = 2
          /\ fs0[log[i].name \o opt.resultSuffix].data # <<>>
          /\ fs[log[i].name \o opt.resultSuffix] = File(<<>>)

\* the failures of record l that report a mismatch for fixture n
Mismatches(l, n) ==
    {i \in FailuresOf(l, n) : l[i].why # "Error during test() call"}

\* serializer f returns an error for data d
SerializerFails(f, d) == f = "strict" /\ \E k \in 1..Len(d.b) : d.b[k] # 0

\* C23: in regular mode, for a fixture whose output differs from its
\* reference, exactly one mismatch is reported, a recoverable failure, and
\* its text is the one of the rendering path taken: no serializer, the
\* serializer failing on the reference, failing on the output, or the diff
\* (rendered or failed); nothing fatal is reported for the fixture.
C23_OneMismatchAnyPath ==
    \A i, j \in DOMAIN log :
        (/\ log[i].ev = "test" /\ log[j].ev = "bytes.Equal"
         /\ log[i].name = log[j].name /\ log[j].err) =>
            LET n == log[i].name
                why == IF opt.serializeFunc = "nil"
                       THEN {"no data serialization function provided"}
                       ELSE IF SerializerFails(opt.serializeFunc, log[j].out)
                       THEN {"serializing reference output data failed"}
                       ELSE IF SerializerFails(opt.serializeFunc, log[i].out)
                       THEN {"serializing generated output data failed"}
                       ELSE {"generating the diff failed", "Here's the diff"}
            IN  /\ ~opt.initMode
                /\ Cardinality(Mismatches(log, n)) = 1
                /\ \A k \in Mismatches(log, n) :
                      /\ log[k].ev = "Errorf"
                      /\ log[k].why \in why
                      /\ k > j
                /\ FixtureFatals(log) \cap FailuresOf(log, n) = {}

\* C23 witness: a regular run with a serializer that fails on the generated
\* output has reported the mismatch, gone on and returned.
C23_Witness ==
    /\ Returned /\ ~opt.initMode
    /\ \E i \in DOMAIN log :
          /\ log[i] = Errorf(log[i].name, "serializing generated output data failed")
          /\ Cardinality(FailuresOf(log, log[i].name)) = 1

\* the subdirectories of directory content fsys whose name ends with the
\* file suffix of o
SuffixedDirs(fsys, o) ==
    {n \in Names : fsys[n].kind = "dir" /\ EndsWith(n, o.fileSuffix)}

\* C24: the listing a run walks holds direct entries of the directory only,
\* and every call made for a fixture is for a direct entry that is not a
\* subdirectory, whatever the subdirectory's name; a directory whose only
\* entries with the file suffix are subdirectories has no fixture: a regular
\* run ends with the fatal failure of the empty set, an init run returns
\* without a call for any entry.
C24_DirectoriesSkipped ==
    /\ \A k \in DOMAIN files : fs0[files[k]].kind # "none"
    /\ \A i \in DOMAIN log :
          log[i].name # <<>> => fs0[log[i].name].kind \in {"file", "locked"}
    /\ (/\ runs > 0 /\ Ended /\ dir0 = "dir"
        /\ \A n \in Names :
              (fs0[n].kind # "none" /\ EndsWith(n, opt.fileSuffix)) =>
                  n \in SuffixedDirs(fs0, opt)) =>
          /\ ~found
          /\ \A i \in DOMAIN log : log[i].name = <<>>
          /\ fs = fs0
          /\ IF opt.initMode THEN pc = "done" /\ Failures(log) = {}
             ELSE pc = "fatal" /\ log[Len(log)] = Fatalf(<<>>, "No files found")

\* C24 witness: the directory holds a subdirectory whose name ends with the
\* file suffix and a file whose name does not; the init run returned without
\* a call for either, the regular run after it ended with no files found.
C24_Witness ==
    /\ InitThenRegular /\ prev.pc = "done" /\ pc = "fatal"
    /\ opt.fileSuffix # <<>>
    /\ SuffixedDirs(fs0, opt) # {}
    /\ \E n \in Names : fs0[n].kind = "file"
    /\ \A i \in DOMAIN prev.log : prev.log[i].name = <<>>
    /\ log[Len(log)] = Fatalf(<<>>, "No files found")

\* C25: when the read of a selected fixture fails (the file cannot be read),
\* the read is followed by a fatal failure for the fixture, which ends the
\* run; the callback is not called for it and its reference is neither
\* looked up, read, compared nor written.
C25_FixtureReadFailure ==
    \A i \in DOMAIN log :
        (/\ log[i].ev = "ReadFile" /\ log[i].why = ""
         /\ (log[i].err \/ fs0[log[i].name].kind = "locked")) =>
            LET n == log[i].name
            IN  /\ log[i].err
                /\ Len(log) = i + 1
                /\ log[i + 1] = Fatalf(n, "Can't read the file")
                /\ pc = "fatal"
                /\ Calls(log, "test", n) = {}
                /\ ReferenceLoads(log, n) = {}
                /\ Reconciles(log, n) = {}
                /\ FailuresOf(log, n) = {i + 1}

\* C25 witness: a regular run has processed one fixture and then failed to
\* read the next one, whose reference file exists.
C25_Witness ==
    /\ ~opt.initMode /\ pc = "fatal"
    /\ NoReferenceIsFixture(fs0, opt)
    /\ \E n \in Fixtures(fs0, opt) :
          /\ fs0[n].kind = "locked"
          /\ log[Len(log)] = Fatalf(n, "Can't read the file")
          /\ \E m \in Fixtures(fs0, opt) : FullyProcessed(log, m)

\* C26: when a run in regular mode has returned and reported no failure,
\* recoverable or fatal, at least one fixture was selected, and for every
\* selected fixture the callback was called exactly once, returned no error,
\* and returned bytes equal to the content of the fixture's reference file.
C26_PassingRunSound ==
    (/\ runs > 0 /\ Ended /\ ~opt.initMode /\ Failures(log) = {}) =>
        /\ pc = "done"
        /\ found
        /\ Fixtures(fs0, opt) # {}
        /\ fs = fs0
        /\ \A n \in Fixtures(fs0, opt) :
              /\ Cardinality(Calls(log, "test", n)) = 1
              /\ \A i \in Calls(log, "test", n) :
                    /\ ~log[i].err
                    /\ n \o opt.resultSuffix \in Names
                    /\ fs0[n \o opt.resultSuffix].kind = "file"
                    /\ BytesEqual(log[i].out,
                                  Slice(fs0[n \o opt.resultSuffix].data))

\* C26 witness: a regular run over two fixtures has passed, with a callback
\* whose output differs from its input and is not empty.
C26_Witness ==
    /\ runs > 0 /\ Returned /\ ~opt.initMode /\ Failures(log) = {}
    /\ test = "parse"
    /\ Cardinality(Fixtures(fs0, opt)) = 2
    /\ \A n \in Fixtures(fs0, opt) :
          \E i \in Calls(log, "test", n) :
              /\ log[i].out # Nil /\ log[i].out.b # <<>>
              /\ log[i].out.b # fs0[n].data

\* the fixtures a run handed to processFile, by its record l
SelectedNames(l) == {l[i].name : i \in DOMAIN l} \ {<<>>}

\* an init run has ended, nothing has touched the directory since, and a
\* further run with the same suffixes has begun
AfterInitRun ==
    /\ prev.ran /\ prev.opt.initMode /\ prev.pc \in {"done", "fatal"}
    /\ prev.changed = NoChange
    /\ opt.fileSuffix = prev.opt.fileSuffix
    /\ opt.resultSuffix = prev.opt.resultSuffix

\* no reference the init run wrote is selected by that run or by the next
\* one, and the next run selects no fixture the init run did not have
NoReferenceSelected ==
    /\ SelectedNames(prev.log) \cap Written(prev.log) = {}
    /\ SelectedNames(log) \cap Written(prev.log) = {}
    /\ SelectedNames(log) \subseteq Fixtures(prev.fs0, prev.opt)
    /\ Fixtures(fs0, opt) \subseteq Fixtures(prev.fs0, prev.opt)

\* C27 as stated: whenever fileSuffix and resultSuffix are both non-empty and
\* different, no reference written by an init run is selected as a fixture
\* by that run or by a later run with the same options, and the fixture set
\* does not grow.
C27_NonEmptyDistinctSuffixes ==
    (/\ AfterInitRun
     /\ opt.fileSuffix # <<>> /\ opt.resultSuffix # <<>>
     /\ opt.fileSuffix # opt.resultSuffix) =>
        NoReferenceSelected

\* C27, amended: whenever no selected fixture's reference path (fixture path
\* + resultSuffix) itself ends with fileSuffix, no reference written by an
\* init run is selected as a fixture by that run or by a later run with the
\* same options, and the fixture set does not grow.
C27_NoReferenceSelected ==
    (AfterInitRun /\ NoReferenceIsFixture(prev.fs0, prev.opt)) =>
        NoReferenceSelected

\* C27 witness: two init runs in succession have returned; the first wrote
\* references whose names hold the fixture suffix without ending with it,
\* and the second selected the same fixtures again.
C27_Witness ==
    /\ AfterInitRun /\ NoReferenceIsFixture(prev.fs0, prev.opt)
    /\ prev.pc = "done" /\ Returned /\ opt.initMode
    /\ opt.fileSuffix = <<"j">> /\ opt.resultSuffix = <<"j", "r">>
    /\ Written(prev.log) # {}
    /\ SelectedNames(log) = Fixtures(prev.fs0, prev.opt)
    /\ Written(log) = Written(prev.log)

\* what a run may write: the content of no selected fixture changes; every
\* file write is made in init mode for a fixture that was read, at the
\* fixture's path + resultSuffix; the directory is created in init mode only
\* and only when it is missing; and nothing else changes
OnlyReferencesWritten ==
    /\ \A n \in Fixtures(fs0, opt) : fs[n] = fs0[n]
    /\ \A i \in DOMAIN log :
          /\ log[i].ev = "WriteFile" =>
                /\ opt.initMode
                /\ log[i].name \in Fixtures(fs0, opt)
                /\ FixtureReads(log, log[i].name) # {}
                /\ log[i].path = log[i].name \o opt.resultSuffix
          /\ log[i].ev = "MkdirAll" =>
                /\ opt.initMode
                /\ dir0 \in {"missing", "blocked"}
                /\ log[i].path = <<>>
    /\ \A n \in Names : fs[n] # fs0[n] => n \in Written(log)
    /\ dir # dir0 =>
          /\ dir0 = "missing" /\ dir = "dir"
          /\ \E i \in DOMAIN log : log[i].ev = "MkdirAll" /\ ~log[i].err

\* C28 as stated: whenever fileSuffix and resultSuffix are both non-empty and
\* different, no run in either mode changes the content of a file selected
\* as a fixture, and the only paths a run writes are the directory (created
\* when missing, init mode) and fixture path + resultSuffix for the fixtures
\* processed in init mode.
C28_NonEmptyDistinctSuffixes ==
    (/\ runs > 0 /\ pc # "panic" /\ changed = NoChange
     /\ opt.fileSuffix # <<>> /\ opt.resultSuffix # <<>>
     /\ opt.fileSuffix # opt.resultSuffix) =>
        OnlyReferencesWritten

\* C28, amended: whenever no selected fixture's reference path (fixture path
\* + resultSuffix) itself ends with fileSuffix, no run in either mode changes
\* the content of a file selected as a fixture, and the only paths a run
\* writes are the directory (created when missing, init mode) and fixture
\* path + resultSuffix for the fixtures processed in init mode.
C28_FixturesNeverWritten ==
    (/\ runs > 0 /\ pc # "panic" /\ changed = NoChange
     /\ NoReferenceIsFixture(fs0, opt)) =>
        OnlyReferencesWritten

\* C28 witness: an init run has returned after it replaced the reference of
\* a fixture with other bytes; the fixture, which is not empty, is as it was.
C28_Witness ==
    /\ Returned /\ opt.initMode /\ NoReferenceIsFixture(fs0, opt)
    /\ opt.resultSuffix = <<"j", "r">>
    /\ \E n \in Fixtures(fs0, opt) :
          /\ fs0[n].data # <<>> /\ fs[n] = fs0[n]
          /\ fs0[n \o opt.resultSuffix].kind = "file"
          /\ fs[n \o opt.resultSuffix] # fs0[n \o opt.resultSuffix]

====
